---- MODULE Spec2Model ----
(***************************************************************************)
(* A model of download.py, the Classroom material downloader.             *)
(*                                                                         *)
(* Strings that the program inspects character by character (titles,      *)
(* file names, directory names) are sequences of one-character strings.   *)
(* MIME types, identifiers and timestamps, which the program only         *)
(* compares or classifies, are TLA+ strings.                               *)
(***************************************************************************)
EXTENDS Integers, Sequences, FiniteSets, TLC

VARIABLES
    remote,     \* the catalog list_all_material returns (the same on every run)
    files,      \* output tree: path -> content of each regular file
    dirs,       \* output tree: the set of directory paths
    courses,    \* the in-memory catalog of the running process
    pc,         \* position of the process
    pos,        \* index of the group (planning) or material (downloading) at hand
    child,      \* index of the folder child at hand
    rerun,      \* FALSE in the first process run, TRUE in the second
    prev,       \* how the first run ended ("none" while it runs)
    prevFiles,  \* the files the first run left behind
    err,        \* the exception that ended the run, "none" otherwise
    warnings,   \* the warnings printed in this run
    fastMarked, \* the Materials line 224 marked downloaded in this run
    metaCalls,  \* the Materials files().get was requested for in this run
    invoked,    \* the download_file calls of this run: [obj, branch]
    attempted,  \* the folder children the loop of download_file got to: <<obj, child>>
    nin,        \* input of the name resolver under test
    nout,       \* its output
    npc         \* "input", then "sanitized" or "uniquified"

vars == <<remote, files, dirs, courses, pc, pos, child, rerun, prev, prevFiles,
          err, warnings, fastMarked, metaCalls, invoked, attempted, nin, nout, npc>>

syncVars == <<remote, files, dirs, courses, pc, pos, child, rerun, prev, prevFiles,
              err, warnings, fastMarked, metaCalls, invoked, attempted>>

nameVars == <<nin, nout, npc>>

\* Python's None where the program holds a string or a number
None == "None"

\* Python's None where the program holds a name: no resolved name is empty
NoName == <<>>

(***************************************************************************)
(* Bounds of the model.                                                    *)
(***************************************************************************)
MaxTitleLen == 2

MaxNames == 3

MaxMaterials == 2

MaxStray == 1

(***************************************************************************)
(* Characters and strings.                                                 *)
(***************************************************************************)
NonPrintable == {"\t", "\n"}

Whitespace == {" ", "\t", "\n"}

Underscored == {"\\", "/", "<", ">", "|", "?", "*"}

Lower(c) ==
    CASE c = "A" -> "a"
      [] c = "B" -> "b"
      [] c = "P" -> "p"
      [] OTHER -> c

LowerStr(s) == [i \in 1..Len(s) |-> Lower(s[i])]

Take(s, n) == IF Len(s) <= n THEN s ELSE SubSeq(s, 1, n)

RECURSIVE LStrip(_, _)
LStrip(s, cs) ==
    IF s # <<>> /\ Head(s) \in cs THEN LStrip(Tail(s), cs) ELSE s

RECURSIVE RStrip(_, _)
RStrip(s, cs) ==
    IF s # <<>> /\ s[Len(s)] \in cs THEN RStrip(SubSeq(s, 1, Len(s) - 1), cs) ELSE s

Strip(s, cs) == RStrip(LStrip(s, cs), cs)

EndsWith(s, suffix) ==
    /\ Len(suffix) <= Len(s)
    /\ SubSeq(s, Len(s) - Len(suffix) + 1, Len(s)) = suffix

\* str.split(sep) for a one-character separator: the segments between separators
RECURSIVE SplitFrom(_, _, _, _)
SplitFrom(s, sep, i, cur) ==
    IF i > Len(s) THEN <<cur>>
    ELSE IF s[i] = sep THEN <<cur>> \o SplitFrom(s, sep, i + 1, <<>>)
    ELSE SplitFrom(s, sep, i + 1, Append(cur, s[i]))

Split(s, sep) == SplitFrom(s, sep, 1, <<>>)

RECURSIVE Join(_, _)
Join(segs, sep) ==
    IF segs = <<>> THEN <<>>
    ELSE IF Len(segs) = 1 THEN segs[1]
    ELSE segs[1] \o <<sep>> \o Join(Tail(segs), sep)

Digits == <<"0", "1", "2", "3", "4", "5", "6", "7", "8", "9">>

RECURSIVE Decimal(_)
Decimal(n) ==
    IF n < 10 THEN <<Digits[n + 1]>>
    ELSE Append(Decimal(n \div 10), Digits[(n % 10) + 1])

\* f"_{n:03}": the number in decimal, padded with zeros to three digits
Suffix03(n) ==
    LET d == Decimal(n)
        pad == IF Len(d) = 1 THEN <<"0", "0">> ELSE IF Len(d) = 2 THEN <<"0">> ELSE <<>>
    IN  <<"_">> \o pad \o d

(***************************************************************************)
(* Name resolver.                                                          *)
(***************************************************************************)
MaxNameLen == 200

no_name == <<"n", "o", "_", "n", "a", "m", "e">>

MapChar(c) ==
    IF c \in NonPrintable THEN " "
    ELSE IF c \in Underscored THEN "_"
    ELSE IF c = ":" THEN "-"
    ELSE IF c = "\"" THEN "'"
    ELSE c

title_to_filename_nofallback(title) ==
    LET s == [i \in 1..Len(title) |-> MapChar(title[i])]
    IN  Take(Strip(Strip(s, Whitespace), {"."}), MaxNameLen)

title_to_filename(title) ==
    LET s == [i \in 1..Len(title) |-> MapChar(title[i])]
        t == Take(Strip(Strip(s, Whitespace), {"."}), MaxNameLen)
    IN  IF t = <<>> THEN no_name ELSE t

Count(names, name) == Cardinality({i \in 1..Len(names) : names[i] = name})

\* s1 = s[:-2]; s2 = s[-2:]; s2[0] += suffix; '.'.join(s1 + s2)
SuffixSegments(s, k) ==
    Join((IF Len(s) > 2 THEN SubSeq(s, 1, Len(s) - 2) ELSE <<>>)
         \o [(IF Len(s) > 2 THEN SubSeq(s, Len(s) - 1, Len(s)) ELSE s)
                EXCEPT ![1] = @ \o Suffix03(k)],
         ".")

\* 'photo.jpg' --> 'photo_001.jpg': the suffix goes on the last segment but one
SuffixedWithExtension(name, k) == SuffixSegments(Split(name, "."), k)

RECURSIVE UniqueLoop(_, _, _, _)
UniqueLoop(names, i, suffix, has_extension) ==
    IF i > Len(names) THEN <<>>
    ELSE IF names[i] \in DOMAIN suffix
    THEN <<IF has_extension
           THEN SuffixedWithExtension(names[i], suffix[names[i]])
           ELSE names[i] \o Suffix03(suffix[names[i]])>>
         \o UniqueLoop(names, i + 1, [suffix EXCEPT ![names[i]] = @ + 1], has_extension)
    ELSE <<names[i]>> \o UniqueLoop(names, i + 1, suffix, has_extension)

\* suffix = {name:1 for name in counter if counter[name] > 1}
Recurring(names) == {names[i] : i \in {j \in 1..Len(names) : Count(names, names[j]) > 1}}

\* make_unique_names after its first line, on the sanitized names
UniqueNames(names, has_extension) ==
    IF Recurring(names) = {} THEN names
    ELSE UniqueLoop(names, 1, [name \in Recurring(names) |-> 1], has_extension)

make_unique_names(titles, has_extension) ==
    UniqueNames([i \in 1..Len(titles) |-> title_to_filename(titles[i])], has_extension)

(***************************************************************************)
(* MIME types: those the program names, and the extensions the mimetypes  *)
(* library knows for them.                                                 *)
(***************************************************************************)
PDF == "application/pdf"

DOCX == "application/vnd.openxmlformats-officedocument.wordprocessingml.document"

XLSX == "application/vnd.openxmlformats-officedocument.spreadsheetml.sheet"

PPTX == "application/vnd.openxmlformats-officedocument.presentationml.presentation"

ODT == "application/vnd.oasis.opendocument.text"

PNG == "image/png"

HTML == "text/html"

FOLDER == "application/vnd.google-apps.folder"

GDOC == "application/vnd.google-apps.document"

GSHEET == "application/vnd.google-apps.spreadsheet"

GSLIDES == "application/vnd.google-apps.presentation"

GDRAW == "application/vnd.google-apps.drawing"

\* 'vnd.openxmlformats-officedocument' in t
IsOfficeXml(t) == t \in {DOCX, XLSX, PPTX}

\* 'vnd.oasis.opendocument' in t
IsOpenDocument(t) == t \in {ODT}

\* 'application/pdf' in t
IsPdf(t) == t = PDF

\* t.startswith('image/')
IsImage(t) == t \in {PNG}

choose_mime_type(choices, document_type) ==
    LET a == SelectSeq(choices, IsOfficeXml)
        b == SelectSeq(choices, IsOpenDocument)
        c == SelectSeq(choices, IsPdf)
        d == SelectSeq(choices, IsImage)
        fmt == IF a # <<>> THEN a
               ELSE IF b # <<>> THEN b
               ELSE IF c # <<>> THEN c
               ELSE IF d # <<>> THEN d
               ELSE choices
    IN  IF fmt # <<>> THEN fmt[1]
        ELSE IF document_type = GDOC THEN DOCX
        ELSE IF document_type = GSHEET THEN XLSX
        ELSE IF document_type = GSLIDES THEN PPTX
        ELSE IF document_type = GDRAW THEN PDF
        ELSE document_type

\* mimetypes.guess_all_extensions; guess_extension is its first element
guess_all_extensions(mimeType) ==
    CASE mimeType = PDF -> << <<".", "p", "d", "f">> >>
      [] mimeType = DOCX -> << <<".", "d", "o", "c", "x">> >>
      [] mimeType = XLSX -> << <<".", "x", "l", "s", "x">> >>
      [] mimeType = PPTX -> << <<".", "p", "p", "t", "x">> >>
      [] mimeType = ODT -> << <<".", "o", "d", "t">> >>
      [] mimeType = PNG -> << <<".", "p", "n", "g">> >>
      [] mimeType = HTML -> << <<".", "h", "t", "m", "l">>, <<".", "h", "t", "m">>,
                               <<".", "s", "h", "t", "m", "l">> >>
      [] OTHER -> <<>>

add_extension(filename, mimeType) ==
    LET extensions == guess_all_extensions(IF mimeType = None THEN "" ELSE mimeType)
    IN  IF /\ extensions # <<>>
           /\ ~\E i \in DOMAIN extensions :
                  EndsWith(LowerStr(filename), LowerStr(extensions[i]))
        THEN filename \o extensions[1]
        ELSE filename

(***************************************************************************)
(* The remote Drive: the files the catalog can attach, with what the      *)
(* Drive API answers for each.  size is the string the API returns,       *)
(* absent (None) for native documents and folders; createdTime is the     *)
(* rank of the ISO-8601 timestamp; exportLinks are the keys of the        *)
(* mapping, in the order received; linkContentType is the Content-Type    *)
(* the export link answers with; exportFails tells whether export_media   *)
(* raises; children are what files().list returns for a folder.           *)
(***************************************************************************)
DriveIds == {"direct", "link_ok", "link_bad", "folder", "folder_bad", "export_ok", "export_fail"}

NoFile ==
    [title |-> <<>>, size |-> None, createdTime |-> 0, mimeType |-> None,
     exportLinks |-> <<>>, linkContentType |-> None, exportFails |-> FALSE,
     children |-> <<>>]

DriveChild(id, name, mimeType, kind, mediaFails) ==
    [id |-> id, name |-> name, mimeType |-> mimeType, kind |-> kind, mediaFails |-> mediaFails]

DriveFile(id) ==
    CASE id = "direct" ->
           [NoFile EXCEPT !.title = <<"a">>, !.size = "12", !.createdTime = 5,
                          !.mimeType = PDF]
      [] id = "link_ok" ->
           [NoFile EXCEPT !.title = <<"a">>, !.createdTime = 2, !.mimeType = GDOC,
                          !.exportLinks = <<PDF, DOCX>>, !.linkContentType = DOCX]
      [] id = "link_bad" ->
           [NoFile EXCEPT !.title = <<"b", ":">>, !.createdTime = 4, !.mimeType = GSHEET,
                          !.exportLinks = <<XLSX>>, !.linkContentType = HTML]
      [] id = "folder" ->
           [NoFile EXCEPT !.title = <<"f">>, !.createdTime = 6, !.mimeType = FOLDER,
                          !.children = << DriveChild("k1", <<"x">>, FOLDER, "drive#folder", FALSE),
                                          DriveChild("k2", <<"c">>, PDF, "drive#file", FALSE) >>]
      [] id = "folder_bad" ->
           [NoFile EXCEPT !.title = <<"f">>, !.createdTime = 1, !.mimeType = FOLDER,
                          !.children = << DriveChild("k3", <<"c">>, PDF, "drive#file", FALSE),
                                          DriveChild("k4", <<"e">>, GDOC, "drive#file", TRUE),
                                          DriveChild("k5", <<"c", ".", "P", "D", "F">>, PDF,
                                                     "drive#file", FALSE) >>]
      [] id = "export_ok" ->
           [NoFile EXCEPT !.title = <<"d", ".">>, !.createdTime = 3, !.mimeType = GDRAW]
      [] id = "export_fail" ->
           [NoFile EXCEPT !.title = <<"p">>, !.createdTime = 3, !.mimeType = GSLIDES,
                          !.exportFails = TRUE]

\* Python's truth value of attr.get('size'): a non-empty string
Truthy(v) == v # None /\ v # ""

(***************************************************************************)
(* The output tree.  A path is the sequence of names below the output     *)
(* directory.                                                              *)
(***************************************************************************)
Prefixes(path) == {SubSeq(path, 1, k) : k \in 1..Len(path)}

Parent(path) == SubSeq(path, 1, Len(path) - 1)

is_dir(path, ds) == path = <<>> \/ path \in ds

is_file(path, fs) == path \in DOMAIN fs

listdir(path, fs, ds) ==
    {p \in (DOMAIN fs) \cup ds : Len(p) = Len(path) + 1 /\ Parent(p) = path}

\* Path.mkdir(parents=True, exist_ok=True): fails when a file is in the way
MkdirFails(path, fs) == \E p \in Prefixes(path) : p \in DOMAIN fs

Mkdir(path, ds) == ds \cup Prefixes(path)

\* open(path, 'xb'): exclusive creation fails when anything has that name
OpenTruncatingFails(path, fs, ds) == path \in ds

OpenExclusiveFails(path, fs, ds) == path \in DOMAIN fs \/ path \in ds

\* What a file holds: the bytes, and the run that wrote them ("before" the first)
Content(data, stamp) == [data |-> data, written |-> stamp]

\* mkdir of the parent, exclusive open, write: the tree afterwards and the exception
WriteNew(dir, name, data, fs, ds) ==
    IF MkdirFails(dir, fs)
    THEN [files |-> fs, dirs |-> ds, err |-> "FileExistsError"]
    ELSE IF OpenExclusiveFails(dir \o <<name>>, fs, Mkdir(dir, ds))
    THEN [files |-> fs, dirs |-> Mkdir(dir, ds), err |-> "FileExistsError"]
    ELSE [files |-> (dir \o <<name>> :> data) @@ fs, dirs |-> Mkdir(dir, ds), err |-> "none"]

(***************************************************************************)
(* The catalog, as list_all_material builds it.  obj stands for the       *)
(* identity of a Material object: the group it is attached to and its     *)
(* place in the API's answer.                                              *)
(***************************************************************************)
NewMaterial(cwmId, i, id) ==
    [obj |-> <<cwmId, i>>, ID |-> id, title |-> DriveFile(id).title, filename |-> NoName,
     size |-> None, creationTime |-> None, mimeType |-> None, exportLinks |-> <<>>,
     downloaded |-> FALSE]

NewCourseWorkMaterial(id, title, creationTime, ids) ==
    [ID |-> id, title |-> title, creationTime |-> creationTime, dirname |-> NoName,
     materials |-> [i \in 1..Len(ids) |-> NewMaterial(id, i, ids[i])]]

NewCourse(id, title, creationTime, cwms) ==
    [ID |-> id, title |-> title, creationTime |-> creationTime, dirname |-> NoName,
     courseWorkMaterials |-> cwms]

\* list.sort(key=lambda item: item.creationTime): a stable sort
RECURSIVE InsertByTime(_, _)
InsertByTime(sorted, item) ==
    IF sorted = <<>> THEN <<item>>
    ELSE IF item.creationTime < Head(sorted).creationTime THEN <<item>> \o sorted
    ELSE <<Head(sorted)>> \o InsertByTime(Tail(sorted), item)

RECURSIVE SortFrom(_, _, _)
SortFrom(collection, i, sorted) ==
    IF i > Len(collection) THEN sorted
    ELSE SortFrom(collection, i + 1, InsertByTime(sorted, collection[i]))

SortByTime(collection) == SortFrom(collection, 1, <<>>)

WithDirnames(items, names) ==
    [i \in 1..Len(items) |-> [items[i] EXCEPT !.dirname = names[i]]]

\* item.dirname = title_to_filename(item.title)
SanitizedDirnames(sorted) ==
    WithDirnames(sorted, [i \in 1..Len(sorted) |-> title_to_filename(sorted[i].title)])

\* new_names = make_unique_names(...); item.dirname = new_name
UniqueDirnames(named) ==
    WithDirnames(named, make_unique_names([i \in 1..Len(named) |-> named[i].dirname], FALSE))

assign_directory_names(collection) ==
    UniqueDirnames(SanitizedDirnames(SortByTime(collection)))

\* The first loop of assign_file_names on one Material, attr being the API's answer
FetchMetadata(m, attr) ==
    [m EXCEPT !.size = attr.size,
              !.creationTime = attr.createdTime,
              !.mimeType = attr.mimeType,
              !.exportLinks = attr.exportLinks,
              !.filename = title_to_filename(m.title)]

WithMetadata(materials) ==
    [i \in 1..Len(materials) |-> FetchMetadata(materials[i], DriveFile(materials[i].ID))]

\* The second loop of assign_file_names on one Material, mt being its MIME type
ResolveType(m, mt) ==
    [m EXCEPT !.mimeType = mt, !.filename = add_extension(m.filename, mt)]

WithExtensions(sorted) ==
    [i \in 1..Len(sorted) |->
        ResolveType(sorted[i],
                    IF ~Truthy(sorted[i].size)
                    THEN choose_mime_type(sorted[i].exportLinks, sorted[i].mimeType)
                    ELSE sorted[i].mimeType)]

WithFilenames(materials, names) ==
    [i \in 1..Len(materials) |-> [materials[i] EXCEPT !.filename = names[i]]]

\* new_names = make_unique_names(...); material.filename = new_name
UniqueFilenames(typed) ==
    WithFilenames(typed, make_unique_names([i \in 1..Len(typed) |-> typed[i].filename], TRUE))

assign_file_names(materials) ==
    UniqueFilenames(WithExtensions(SortByTime(WithMetadata(materials))))

\* The loops' order over groups, <<course, group>>, and over materials
RECURSIVE GroupsFrom(_, _)
GroupsFrom(cs, ci) ==
    IF ci > Len(cs) THEN <<>>
    ELSE [gi \in 1..Len(cs[ci].courseWorkMaterials) |-> <<ci, gi>>] \o GroupsFrom(cs, ci + 1)

GroupPositions(cs) == GroupsFrom(cs, 1)

Group(cs, gp) == cs[gp[1]].courseWorkMaterials[gp[2]]

GroupPath(cs, gp) == <<cs[gp[1]].dirname, Group(cs, gp).dirname>>

RECURSIVE MaterialsFrom(_, _)
MaterialsFrom(cs, gps) ==
    IF gps = <<>> THEN <<>>
    ELSE [mi \in 1..Len(Group(cs, Head(gps)).materials) |-> <<Head(gps)[1], Head(gps)[2], mi>>]
         \o MaterialsFrom(cs, Tail(gps))

MaterialPositions(cs) == MaterialsFrom(cs, GroupPositions(cs))

MaterialAt(cs, mp) == cs[mp[1]].courseWorkMaterials[mp[2]].materials[mp[3]]

MaterialsAt(cs, mps) == {MaterialAt(cs, mps[i]) : i \in 1..Len(mps)}

AllMaterials(cs) == MaterialsAt(cs, MaterialPositions(cs))

SetMaterials(cs, gp, ms) ==
    [cs EXCEPT ![gp[1]].courseWorkMaterials[gp[2]].materials = ms]

(***************************************************************************)
(* Sync planner.                                                           *)
(***************************************************************************)
\* path.is_dir() and len(os.listdir(path)) >= len(course_material.materials)
FastPathStrict(path, n, fs, ds) ==
    is_dir(path, ds) /\ Cardinality(listdir(path, fs, ds)) > n

FastPath(path, n, fs, ds) ==
    is_dir(path, ds) /\ Cardinality(listdir(path, fs, ds)) >= n

\* for material in course_material.materials: material.downloaded = ...
MarkGroup(cwm, fast) ==
    [cwm EXCEPT !.materials =
        [mi \in 1..Len(cwm.materials) |-> [cwm.materials[mi] EXCEPT !.downloaded = fast]]]

MarkGroups(dirname, cwms, fs, ds) ==
    [gi \in 1..Len(cwms) |->
        MarkGroup(cwms[gi],
                  FastPath(<<dirname, cwms[gi].dirname>>, Len(cwms[gi].materials), fs, ds))]

PlanCourse(course, fs, ds) ==
    [course EXCEPT !.courseWorkMaterials =
        MarkGroups(course.dirname, assign_directory_names(course.courseWorkMaterials), fs, ds)]

PlanCourses(named, fs, ds) == [ci \in 1..Len(named) |-> PlanCourse(named[ci], fs, ds)]

\* The first loop of assign_dir_and_file_names: directory names, then the flags
PlanDirectories(cs, fs, ds) == PlanCourses(assign_directory_names(cs), fs, ds)

\* any(not material.downloaded for material in course_material.materials)
NeedsRefreshAlways(materials) == TRUE

NeedsRefresh(materials) == \E i \in 1..Len(materials) : ~materials[i].downloaded

\* material.downloaded = (basedir / ... / material.filename).is_file()
MarkExisting(path, named, fs) ==
    [i \in 1..Len(named) |->
        [named[i] EXCEPT !.downloaded = is_file(path \o <<named[i].filename>>, fs)]]

\* The body of the second loop for one group that needs a refresh
RefreshedMaterials(path, materials, fs) ==
    MarkExisting(path, assign_file_names(materials), fs)

(***************************************************************************)
(* File materializer.                                                      *)
(***************************************************************************)
InExportLinks(m) == \E i \in 1..Len(m.exportLinks) : m.exportLinks[i] = m.mimeType

\* The branch download_file takes for a Material whose metadata was fetched
Branch(m) ==
    IF Truthy(m.size) THEN "direct"
    ELSE IF InExportLinks(m) THEN "link"
    ELSE IF m.mimeType = FOLDER THEN "folder"
    ELSE "export"

\* if not material.downloaded, in download_missing_files
MissingAlways(m) == TRUE

Missing(m) == ~m.downloaded

Outcome(w, e, warned) == [files |-> w.files, dirs |-> w.dirs, err |-> e, warned |-> warned]

\* The write after a Content-Type mismatch: no data is bound and control still
\* reaches the write, so the file is created and then f.write(data) raises
UnboundWrite(w, warned) ==
    Outcome(w, IF w.err = "none" THEN "UnboundLocalError" ELSE w.err, warned)

\* download_file but for the folder's branch, b being the branch and file what
\* the remote answers: the tree, the exception and the warnings afterwards
DownloadOutcome(m, b, file, dir, fs, ds, stamp) ==
    IF b = "direct" \/ (b = "link" /\ file.linkContentType = m.mimeType)
       \/ (b = "export" /\ ~file.exportFails)
    THEN Outcome(WriteNew(dir, m.filename, Content(m.ID, stamp), fs, ds),
                 WriteNew(dir, m.filename, Content(m.ID, stamp), fs, ds).err, {})
    ELSE IF b = "link"
    THEN UnboundWrite(WriteNew(dir, m.filename, Content("", stamp), fs, ds),
                      {<<"unable to download material", m.obj>>})
    ELSE [files |-> fs, dirs |-> ds, err |-> "none",
          warned |-> {<<"Skipping material", m.obj>>}]

download_file(m, dir, fs, ds, stamp) ==
    DownloadOutcome(m, Branch(m), DriveFile(m.ID), dir, fs, ds, stamp)

\* childnames, in download_file's folder branch
ChildNames(kids) ==
    make_unique_names([i \in 1..Len(kids) |-> add_extension(kids[i].name, kids[i].mimeType)],
                      TRUE)

(***************************************************************************)
(* The process: one run of main, and a second run on the tree the first   *)
(* one left.                                                               *)
(***************************************************************************)
Stamp == IF rerun THEN "second run" ELSE "first run"

NumGroups == Len(GroupPositions(courses))

NumMaterials == Len(MaterialPositions(courses))

CurrentGroup == GroupPositions(courses)[pos]

CurrentMaterial == MaterialAt(courses, MaterialPositions(courses)[pos])

MaterialDir(cs, mp) == GroupPath(cs, <<mp[1], mp[2]>>)

CurrentDir == MaterialDir(courses, MaterialPositions(courses)[pos])

Raise(e) ==
    /\ pc' = "crashed"
    /\ err' = e

Marked(cs) == {m.obj : m \in {x \in AllMaterials(cs) : x.downloaded}}

AssignDirectoriesTo(planned) ==
    /\ courses' = planned
    /\ fastMarked' = Marked(planned)
    /\ pc' = "plan2"
    /\ pos' = 1
    /\ UNCHANGED <<remote, files, dirs, child, rerun, prev, prevFiles, err, warnings,
                   metaCalls, invoked, attempted, nameVars>>

\* assign_dir_and_file_names, first loop
AssignDirectories ==
    /\ pc = "plan1"
    /\ AssignDirectoriesTo(PlanDirectories(courses, files, dirs))

RefreshGroupAt(gp, path, materials) ==
    /\ NeedsRefresh(materials)
    /\ courses' = SetMaterials(courses, gp, RefreshedMaterials(path, materials, files))
    /\ metaCalls' = metaCalls \cup {materials[i].obj : i \in 1..Len(materials)}
    /\ pos' = pos + 1
    /\ UNCHANGED <<remote, files, dirs, pc, child, rerun, prev, prevFiles, err, warnings,
                   fastMarked, invoked, attempted, nameVars>>

\* assign_dir_and_file_names, second loop: a group some Material of which is not downloaded
RefreshGroup ==
    /\ pc = "plan2"
    /\ pos <= NumGroups
    /\ RefreshGroupAt(CurrentGroup, GroupPath(courses, CurrentGroup),
                      Group(courses, CurrentGroup).materials)

\* assign_dir_and_file_names, second loop: a group left as the first loop marked it
SkipGroup ==
    /\ pc = "plan2"
    /\ pos <= NumGroups
    /\ ~NeedsRefresh(Group(courses, CurrentGroup).materials)
    /\ pos' = pos + 1
    /\ UNCHANGED <<remote, files, dirs, courses, pc, child, rerun, prev, prevFiles, err,
                   warnings, fastMarked, metaCalls, invoked, attempted, nameVars>>

\* assign_dir_and_file_names returns and main calls download_missing_files
BeginDownload ==
    /\ pc = "plan2"
    /\ pos > NumGroups
    /\ pc' = "download"
    /\ pos' = 1
    /\ UNCHANGED <<remote, files, dirs, courses, child, rerun, prev, prevFiles, err,
                   warnings, fastMarked, metaCalls, invoked, attempted, nameVars>>

\* download_missing_files: a Material that is downloaded is passed over
SkipDownloaded ==
    /\ pc = "download"
    /\ pos <= NumMaterials
    /\ ~Missing(CurrentMaterial)
    /\ pos' = pos + 1
    /\ UNCHANGED <<remote, files, dirs, courses, pc, child, rerun, prev, prevFiles, err,
                   warnings, fastMarked, metaCalls, invoked, attempted, nameVars>>

Invoke(m, branch) == invoked' = invoked \cup {[obj |-> m.obj, branch |-> branch]}

\* The call of download_file has returned or raised
Returned(r) ==
    /\ files' = r.files
    /\ dirs' = r.dirs
    /\ warnings' = warnings \cup r.warned
    /\ IF r.err = "none"
       THEN pos' = pos + 1 /\ UNCHANGED <<pc, err>>
       ELSE Raise(r.err) /\ UNCHANGED pos

DownloadFileOf(m, dir) ==
    /\ Missing(m)
    /\ IF m.filename = NoName THEN TRUE ELSE Branch(m) # "folder"
    /\ IF m.filename = NoName
       THEN /\ Raise("TypeError")
            /\ Invoke(m, "none")
            /\ UNCHANGED <<files, dirs, warnings, pos>>
       ELSE /\ Invoke(m, Branch(m))
            /\ Returned(download_file(m, dir, files, dirs, Stamp))
    /\ UNCHANGED <<remote, courses, child, rerun, prev, prevFiles, fastMarked, metaCalls,
                   attempted, nameVars>>

\* download_missing_files: download_file on a Material that is no folder.  A
\* filename of None makes the path expression raise before the call.
DownloadFile ==
    /\ pc = "download"
    /\ pos <= NumMaterials
    /\ DownloadFileOf(CurrentMaterial, CurrentDir)

ExpandFolderOf(m) ==
    /\ Missing(m)
    /\ m.filename # NoName
    /\ Branch(m) = "folder"
    /\ Invoke(m, "folder")
    /\ IF DriveFile(m.ID).children = <<>>
       THEN pos' = pos + 1 /\ UNCHANGED <<pc, child>>
       ELSE pc' = "folder" /\ child' = 1 /\ UNCHANGED pos
    /\ UNCHANGED <<remote, files, dirs, courses, rerun, prev, prevFiles, err, warnings,
                   fastMarked, metaCalls, attempted, nameVars>>

\* download_file on a folder: the children are listed and named
ExpandFolder ==
    /\ pc = "download"
    /\ pos <= NumMaterials
    /\ ExpandFolderOf(CurrentMaterial)

\* What the body of the folder's loop does with one child: an exception of
\* get_media or of the write is not caught
ChildOutcome(c, dir, name, fs, ds, stamp) ==
    IF c.kind # "drive#file"
    THEN [files |-> fs, dirs |-> ds, err |-> "none", warned |-> TRUE]
    ELSE IF c.mediaFails
    THEN [files |-> fs, dirs |-> ds, err |-> "HttpError", warned |-> FALSE]
    ELSE Outcome(WriteNew(dir, name, Content(c.id, stamp), fs, ds),
                 WriteNew(dir, name, Content(c.id, stamp), fs, ds).err, FALSE)

FolderChildOf(m, n, r) ==
    /\ attempted' = attempted \cup {<<m.obj, child>>}
    /\ files' = r.files
    /\ dirs' = r.dirs
    /\ warnings' = IF r.warned
                   THEN warnings \cup {<<"unable to download folder item", m.obj, child>>}
                   ELSE warnings
    /\ IF r.err # "none"
       THEN Raise(r.err) /\ UNCHANGED <<pos, child>>
       ELSE IF child = n
       THEN pc' = "download" /\ pos' = pos + 1 /\ child' = 0 /\ UNCHANGED err
       ELSE child' = child + 1 /\ UNCHANGED <<pc, pos, err>>
    /\ UNCHANGED <<remote, courses, rerun, prev, prevFiles, fastMarked, metaCalls, invoked,
                   nameVars>>

FolderChildIn(m, kids, dir) ==
    FolderChildOf(m, Len(kids),
                  ChildOutcome(kids[child], dir \o <<m.filename>>, ChildNames(kids)[child],
                               files, dirs, Stamp))

\* download_file on a folder: one turn of the loop over the children
FolderChild ==
    /\ pc = "folder"
    /\ FolderChildIn(CurrentMaterial, DriveFile(CurrentMaterial.ID).children, CurrentDir)

\* download_missing_files returns and main ends
Finish ==
    /\ pc = "download"
    /\ pos > NumMaterials
    /\ pc' = "done"
    /\ UNCHANGED <<remote, files, dirs, courses, pos, child, rerun, prev, prevFiles, err,
                   warnings, fastMarked, metaCalls, invoked, attempted, nameVars>>

\* The process is terminated while Materials are still to be handled
Kill ==
    /\ pc \in {"download", "folder"}
    /\ pos <= NumMaterials
    /\ pc' = "killed"
    /\ UNCHANGED <<remote, files, dirs, courses, pos, child, rerun, prev, prevFiles, err,
                   warnings, fastMarked, metaCalls, invoked, attempted, nameVars>>

\* main is run again: the same remote catalog, the output tree as it was left
Rerun ==
    /\ pc \in {"done", "killed", "crashed"}
    /\ ~rerun
    /\ rerun' = TRUE
    /\ prev' = pc
    /\ prevFiles' = files
    /\ courses' = remote
    /\ pc' = "plan1"
    /\ pos' = 0
    /\ child' = 0
    /\ err' = "none"
    /\ warnings' = {}
    /\ fastMarked' = {}
    /\ metaCalls' = {}
    /\ invoked' = {}
    /\ attempted' = {}
    /\ UNCHANGED <<remote, files, dirs, nameVars>>

(***************************************************************************)
(* Initial states: a catalog of one course with two groups, or of two     *)
(* courses with one group each, attaching at most MaxMaterials Drive      *)
(* files, and an output tree where each group's directory is absent or    *)
(* holds up to MaxStray files the tool did not write.                     *)
(***************************************************************************)
SeqsUpTo(S, n) == UNION {[1..k -> S] : k \in 0..n}

OneCourse(ids1, ids2) ==
    << NewCourse("c1", <<"C", ":", "1">>, 1,
                 << NewCourseWorkMaterial("w1", <<"w">>, 2, ids1),
                    NewCourseWorkMaterial("w2", <<"w">>, 1, ids2) >>) >>

TwoCourses(ids1, ids2) ==
    << NewCourse("c1", <<"C", ":", "1">>, 2,
                 << NewCourseWorkMaterial("w1", <<"w">>, 1, ids1) >>),
       NewCourse("c2", <<"C", "-", "1">>, 1,
                 << NewCourseWorkMaterial("w2", <<"w", "?">>, 1, ids2) >>) >>

IdLists(n) ==
    UNION {[1..a -> DriveIds] \X [1..b -> DriveIds] : <<a, b>> \in {x \in (0..n) \X (0..n) : x[1] + x[2] <= MaxMaterials}}

Catalogs ==
    {OneCourse(ids[1], ids[2]) : ids \in IdLists(MaxMaterials)}
    \cup
    {TwoCourses(ids[1], ids[2]) : ids \in IdLists(1)}

StrayName(j) == <<"s", Digits[j + 1]>>

GroupPaths(named) ==
    [i \in 1..Len(GroupPositions(named)) |-> GroupPath(named, GroupPositions(named)[i])]

\* The directories the planner will look into for this catalog
PlannedPaths(cs) == GroupPaths(PlanDirectories(cs, <<>>, {}))

StrayFiles(paths, k) ==
    UNION {{paths[i] \o <<StrayName(j)>> : j \in 1..k[i]} : i \in 1..Len(paths)}

StrayTree(stray) ==
    /\ files = [p \in stray |-> Content("stray", "before")]
    /\ dirs = UNION {Prefixes(Parent(p)) : p \in stray}

InitTree(paths) ==
    \E k \in [1..Len(paths) -> 0..MaxStray] : StrayTree(StrayFiles(paths, k))

Idle ==
    /\ nin = [op |-> "none"]
    /\ nout = <<>>
    /\ npc = "idle"

Init ==
    /\ remote \in Catalogs
    /\ \E paths \in {PlannedPaths(remote)} : InitTree(paths)
    /\ courses = remote
    /\ pc = "plan1"
    /\ pos = 0
    /\ child = 0
    /\ rerun = FALSE
    /\ prev = "none"
    /\ prevFiles = <<>>
    /\ err = "none"
    /\ warnings = {}
    /\ fastMarked = {}
    /\ metaCalls = {}
    /\ invoked = {}
    /\ attempted = {}
    /\ Idle

Next ==
    \/ AssignDirectories
    \/ RefreshGroup
    \/ SkipGroup
    \/ BeginDownload
    \/ SkipDownloaded
    \/ DownloadFile
    \/ ExpandFolder
    \/ FolderChild
    \/ Finish
    \/ Kill
    \/ Rerun

Spec == Init /\ [][Next]_vars

(***************************************************************************)
(* The name resolver on its own: title_to_filename on one title, or       *)
(* make_unique_names on a list of titles.  A title is a few characters,   *)
(* then a run of "a" that reaches the length limit or not, then a last    *)
(* character or none.                                                      *)
(***************************************************************************)
TitleChars == {"a", ".", " ", "\t", "\\", "/", "<", ">", "|", "?", "*", ":", "\""}

PadLens == {0, MaxNameLen - 1, MaxNameLen, MaxNameLen + 1}

TitleEnds == {<<>>, <<".">>, <<" ">>, <<"/">>}

NameChoices ==
    { <<"a">>, <<"a", "_", "0", "0", "1">>, <<"a", ".", "b">>,
      <<"a", "_", "0", "0", "1", ".", "b">>, <<"a", ":">> }

TitleOf(n) == n.head \o [i \in 1..n.pad |-> "a"] \o n.tail

NameInputs ==
    [op : {"title"}, head : SeqsUpTo(TitleChars, MaxTitleLen), pad : PadLens, tail : TitleEnds]
    \cup
    [op : {"names"}, names : SeqsUpTo(NameChoices, MaxNames), has_extension : BOOLEAN]

Stopped ==
    /\ remote = <<>>
    /\ files = <<>>
    /\ dirs = {}
    /\ courses = <<>>
    /\ pc = "none"
    /\ pos = 0
    /\ child = 0
    /\ rerun = FALSE
    /\ prev = "none"
    /\ prevFiles = <<>>
    /\ err = "none"
    /\ warnings = {}
    /\ fastMarked = {}
    /\ metaCalls = {}
    /\ invoked = {}
    /\ attempted = {}

InitNames ==
    /\ Stopped
    /\ nin \in NameInputs
    /\ nout = <<>>
    /\ npc = "input"

Sanitize ==
    /\ npc = "input"
    /\ nin.op = "title"
    /\ nout' = title_to_filename(TitleOf(nin))
    /\ npc' = "sanitized"
    /\ UNCHANGED <<nin, syncVars>>

Uniquify ==
    /\ npc = "input"
    /\ nin.op = "names"
    /\ nout' = make_unique_names(nin.names, nin.has_extension)
    /\ npc' = "uniquified"
    /\ UNCHANGED <<nin, syncVars>>

NextNames ==
    \/ Sanitize
    \/ Uniquify

SpecNames == InitNames /\ [][NextNames]_vars

(***************************************************************************)
(* Definitions the properties below are stated with.                       *)
(***************************************************************************)
Planned == pc \in {"download", "folder", "done", "killed", "crashed"}

FilePath(cs, mp) == MaterialDir(cs, mp) \o <<MaterialAt(cs, mp).filename>>

\* The branches of download_file that get to the write at the end of the function
ReachesWrite(m) ==
    \/ Branch(m) \in {"direct", "link"}
    \/ Branch(m) = "export" /\ ~DriveFile(m.ID).exportFails

ChildPath(dir, m, kids, k) == dir \o <<m.filename, ChildNames(kids)[k]>>

\* The paths the next step of download_file is about to write
WriteTargets ==
    IF pc = "download" /\ pos <= NumMaterials
    THEN IF /\ ~CurrentMaterial.downloaded
            /\ CurrentMaterial.filename # NoName
            /\ ReachesWrite(CurrentMaterial)
         THEN {CurrentDir \o <<CurrentMaterial.filename>>}
         ELSE {}
    ELSE IF pc = "folder"
    THEN IF /\ DriveFile(CurrentMaterial.ID).children[child].kind = "drive#file"
            /\ ~DriveFile(CurrentMaterial.ID).children[child].mediaFails
         THEN {ChildPath(CurrentDir, CurrentMaterial, DriveFile(CurrentMaterial.ID).children, child)}
         ELSE {}
    ELSE {}

DownloadStep == invoked' # invoked \/ attempted' # attempted

\* Every Material of the catalog with its resolved name and its directory
ResolvedTargets ==
    UNION {{[m |-> assign_file_names(Group(courses, GroupPositions(courses)[i]).materials)[k],
             dir |-> GroupPath(courses, GroupPositions(courses)[i])] :
                k \in 1..Len(Group(courses, GroupPositions(courses)[i]).materials)} :
           i \in 1..NumGroups}

\* The remote can deliver the Material's content, and the tree holds it
ContentPresent(t, fs) ==
    IF Branch(t.m) = "folder"
    THEN \A k \in 1..Len(DriveFile(t.m.ID).children) :
            (/\ DriveFile(t.m.ID).children[k].kind = "drive#file"
             /\ ~DriveFile(t.m.ID).children[k].mediaFails)
            => /\ ChildPath(t.dir, t.m, DriveFile(t.m.ID).children, k) \in DOMAIN fs
               /\ fs[ChildPath(t.dir, t.m, DriveFile(t.m.ID).children, k)].data
                      = DriveFile(t.m.ID).children[k].id
    ELSE (\/ Branch(t.m) = "direct"
          \/ Branch(t.m) = "link" /\ DriveFile(t.m.ID).linkContentType = t.m.mimeType
          \/ Branch(t.m) = "export" /\ ~DriveFile(t.m.ID).exportFails)
         => /\ t.dir \o <<t.m.filename>> \in DOMAIN fs
            /\ fs[t.dir \o <<t.m.filename>>].data = t.m.ID

Distinct(names) == \A i, j \in 1..Len(names) : i # j => names[i] # names[j]

Sanitized(titles) == [i \in 1..Len(titles) |-> title_to_filename(titles[i])]

ForbiddenChars == {"\\", "/", "<", ">", "|", "?", "*", ":", "\""}

(***************************************************************************)
(* C1.  Idempotence: when the first run ran to completion, the second run *)
(* on the same catalog and the tree it left calls download_file for no    *)
(* Material, and every Material ends planning with downloaded = true.     *)
(***************************************************************************)
C1_SecondRunDownloadsNothing ==
    (rerun /\ prev = "done") =>
        /\ invoked = {}
        /\ Planned => \A m \in AllMaterials(courses) : m.downloaded

(***************************************************************************)
(* C2.  No silent overwrite: no step changes or removes a file that       *)
(* exists, and a step of download_file whose target path exists ends in   *)
(* FileExistsError.                                                        *)
(***************************************************************************)
C2_NoSilentOverwrite ==
    [][/\ \A p \in DOMAIN files : p \in DOMAIN files' /\ files'[p] = files[p]
       /\ DownloadStep =>
             \A t \in WriteTargets :
                 t \in DOMAIN files => (pc' = "crashed" /\ err' = "FileExistsError")]_vars

C2_Witness ==
    /\ pc = "crashed"
    /\ err = "FileExistsError"
    /\ rerun
    /\ files = prevFiles
    /\ files # <<>>

(***************************************************************************)
(* C3.  Export content-type mismatch: after download_file took the export *)
(* link of a Material and the answer's Content-Type differed, a warning   *)
(* is recorded, no file is at the destination and no exception is raised. *)
(***************************************************************************)
C3_ExportMismatchSkipped ==
    \A i \in 1..NumMaterials :
        (/\ [obj |-> MaterialAt(courses, MaterialPositions(courses)[i]).obj, branch |-> "link"]
                \in invoked
         /\ DriveFile(MaterialAt(courses, MaterialPositions(courses)[i]).ID).linkContentType
                # MaterialAt(courses, MaterialPositions(courses)[i]).mimeType)
        => /\ <<"unable to download material",
                MaterialAt(courses, MaterialPositions(courses)[i]).obj>> \in warnings
           /\ FilePath(courses, MaterialPositions(courses)[i]) \notin DOMAIN files
           /\ err = "none"

(***************************************************************************)
(* C4.  Unique resolved names: make_unique_names returns as many names as *)
(* it was given titles, pairwise distinct, and a name whose sanitized     *)
(* form occurs once is that sanitized form.                                *)
(***************************************************************************)
C4_UniqueNames ==
    npc = "uniquified" =>
        /\ Len(nout) = Len(nin.names)
        /\ Distinct(nout)
        /\ \A i \in 1..Len(nin.names) :
               Count(Sanitized(nin.names), Sanitized(nin.names)[i]) = 1
               => nout[i] = Sanitized(nin.names)[i]

(***************************************************************************)
(* C5.  Fast path: while planning, of a group whose directory exists and  *)
(* holds at least as many entries as the group has Materials, every       *)
(* Material is marked downloaded by the first loop and no metadata is     *)
(* requested for it; and in the whole run a Material the first loop       *)
(* marked stays downloaded with no metadata request.                       *)
(***************************************************************************)
C5_FastPathNoMetadata ==
    /\ pc = "plan2" =>
          \A i \in 1..NumGroups :
              (/\ GroupPath(courses, GroupPositions(courses)[i]) \in dirs
               /\ Cardinality(listdir(GroupPath(courses, GroupPositions(courses)[i]), files, dirs))
                      >= Len(Group(courses, GroupPositions(courses)[i]).materials))
              => \A k \in 1..Len(Group(courses, GroupPositions(courses)[i]).materials) :
                     /\ Group(courses, GroupPositions(courses)[i]).materials[k].downloaded
                     /\ Group(courses, GroupPositions(courses)[i]).materials[k].obj \in fastMarked
    /\ fastMarked \cap metaCalls = {}
    /\ \A m \in AllMaterials(courses) : m.obj \in fastMarked => m.downloaded

C5_Witness ==
    /\ pc = "plan2"
    /\ pos > NumGroups
    /\ fastMarked # {}
    /\ metaCalls # {}

(***************************************************************************)
(* C6.  Monotone flag: within one run, a Material whose downloaded flag   *)
(* is true has it true after every step.                                   *)
(***************************************************************************)
C6_DownloadedMonotone ==
    [][rerun' = rerun =>
          \A m \in AllMaterials(courses) :
              m.downloaded => \E n \in AllMaterials(courses') : n.obj = m.obj /\ n.downloaded]_vars

C6_Witness ==
    /\ pc = "done"
    /\ \E m \in AllMaterials(courses) : m.downloaded /\ m.obj \in metaCalls
    /\ \E m \in AllMaterials(courses) : ~m.downloaded

(***************************************************************************)
(* C7.  Safe resume: the run after a run that was killed or that crashed  *)
(* raises no FileExistsError, leaves every file of the first run as it    *)
(* was, and when it is done the tree holds the content of every Material  *)
(* the remote can deliver.                                                 *)
(***************************************************************************)
C7_SafeResume ==
    (rerun /\ prev \in {"killed", "crashed"}) =>
        /\ err # "FileExistsError"
        /\ \A p \in DOMAIN prevFiles : p \in DOMAIN files /\ files[p] = prevFiles[p]
        /\ pc = "done" => \A t \in ResolvedTargets : ContentPresent(t, files)

(***************************************************************************)
(* C8.  Folder child failures are isolated: no exception ends the run     *)
(* inside a folder's loop, and once a folder's loop is left every child   *)
(* of the folder has been attempted.                                       *)
(***************************************************************************)
C8_FolderChildIsolated ==
    /\ ~(pc = "crashed" /\ child # 0)
    /\ \A m \in AllMaterials(courses) :
           (/\ [obj |-> m.obj, branch |-> "folder"] \in invoked
            /\ child = 0)
           => \A k \in 1..Len(DriveFile(m.ID).children) : <<m.obj, k>> \in attempted

(***************************************************************************)
(* C9.  Sanitized names: the output of title_to_filename holds none of    *)
(* the characters \ / < > | ? * : ", is at most 200 long and not empty.   *)
(***************************************************************************)
C9_SanitizedNameSafe ==
    npc = "sanitized" =>
        /\ \A i \in 1..Len(nout) : nout[i] \notin ForbiddenChars
        /\ Len(nout) <= 200
        /\ Len(nout) > 0

C9_Witness ==
    /\ npc = "sanitized"
    /\ nout = no_name
    /\ Len(TitleOf(nin)) > 0

(***************************************************************************)
(* C10.  Resolved before downloaded: a Material download_file was called  *)
(* for had its metadata requested and has a resolved filename; a Material *)
(* the fast path marked has no filename and download_file is not called   *)
(* for it.                                                                 *)
(***************************************************************************)
C10_ResolvedBeforeDownload ==
    /\ \A i \in invoked :
          \E m \in AllMaterials(courses) :
              m.obj = i.obj /\ m.filename # NoName /\ m.obj \in metaCalls
    /\ \A m \in AllMaterials(courses) :
          m.obj \in fastMarked =>
              /\ m.filename = NoName
              /\ \A i \in invoked : i.obj # m.obj

C10_Witness ==
    /\ pc = "done"
    /\ invoked # {}
    /\ fastMarked # {}

====
